---- MODULE Spec2Model ----
(***************************************************************************)
(* A state-machine model of nu_plugin_socket:                              *)
(*   - `socket connect` (src/src/connect.rs, Connect::run), the client     *)
(*     operation: one call, executed step by step;                         *)
(*   - `socket listen`  (src/src/listen.rs, Listen::run and                *)
(*     handle_connection), the accept loop, its handler threads, the       *)
(*     interrupt signal and the peers that connect to it.                  *)
(* Durations are counted in seconds (the source counts nanoseconds in 64   *)
(* bits): a Duration is the pair [wrap, secs] that stands for              *)
(* wrap * 2^64 ns + secs * 10^9 ns, so that the signed-to-unsigned cast    *)
(* of the source is computed exactly.                                      *)
(***************************************************************************)
EXTENDS Integers, Sequences, FiniteSets, TLC

VARIABLES
    \* ---- socket connect ----
    cpc,            \* position of Connect::run
    port_val,       \* call.req(1): the port argument, an i64
    timeout_val,    \* call.get_flag("timeout"): <<>> or <<seconds>>
    config_timeout, \* the process configuration's plugins.socket.timeout: <<>> or <<seconds>>
    use_udp,        \* call.has_flag("udp")
    input_val,      \* the pipeline input, a Value
    port,           \* the u16 port, once converted
    timeout,        \* the Duration in use, once resolved
    input_bytes,    \* the payload, once converted
    resolved,       \* the answer of to_socket_addrs: <<>> or <<answer>>
    socket_addr,    \* the resolved address, once resolved
    io,             \* the I/O operations the call has performed, in order
    cresult,        \* the outcome of the call
    sock,           \* the client's socket: "none", "open", "closed"
    delivered,      \* UDP: the datagrams delivered to the socket, oldest first
    written,        \* TCP: the bytes the call has written to the connection
    echoed,         \* TCP: the bytes the peer has sent back so far
    peer_closed,    \* TCP: the peer has closed the connection
    reply,          \* the bytes of the reply: the UDP value, or what was read of the stream
    stream,         \* the returned ByteStream: "none", "live", "eof", "error", "abandoned"
    \* ---- socket listen ----
    lpc,            \* position of Listen::run
    lport,          \* call.req(1) of socket listen
    is_single_shot, \* call.has_flag("single")
    interrupted,    \* engine.signals().interrupted()
    listener,       \* the TcpListener: "none", "blocking", "nonblocking", "dropped"
    backlog,        \* connections waiting to be accepted, oldest first
    arrived,        \* how many peers have connected so far
    conn,           \* per connection: the peer's bytes, the handler's position and data
    stderr,         \* the diagnostics printed by eprintln!
    lresult,        \* the outcome of Listen::run
    hist            \* observation only: what happened since the signal was raised

netvars == <<sock, delivered, written, echoed, peer_closed, reply, stream>>
cvars == <<cpc, port_val, timeout_val, config_timeout, use_udp, input_val, port,
           timeout, input_bytes, resolved, socket_addr, io, cresult, netvars>>
lvars == <<lpc, lport, is_single_shot, interrupted, listener, backlog, arrived,
           conn, stderr, lresult, hist>>
vars == <<cvars, lvars>>

----------------------------------------------------------------------------
(* Bounds of the model.                                                    *)

\* the longest payload a caller of `socket connect` supplies
MaxLen == 2
\* the number of peers that connect to the server
MaxConns == 2
\* the number of datagrams delivered to the client's UDP socket during one call
MaxDatagrams == 2

----------------------------------------------------------------------------
(* Values, bytes and durations.                                            *)

Bytes == {1, 2}
\* code points: 'A' (one UTF-8 byte) and U+00E9 (two UTF-8 bytes)
Chars == {65, 233}

RECURSIVE SeqsUpTo(_, _)
SeqsUpTo(S, n) ==
    IF n = 0 THEN {<<>>}
    ELSE LET shorter == SeqsUpTo(S, n - 1)
         IN  shorter \cup {Append(s, x) : s \in {t \in shorter : Len(t) = n - 1}, x \in S}

\* String::into_bytes / str::as_bytes: the UTF-8 encoding of the string
RECURSIVE into_bytes(_)
into_bytes(s) ==
    IF s = <<>> THEN <<>>
    ELSE LET c == Head(s)
         IN  (IF c < 128 THEN <<c>> ELSE <<192 + (c \div 64), 128 + (c % 64)>>)
             \o into_bytes(Tail(s))

\* nu_protocol::Value, the shapes the plugin distinguishes
StringValue(s) == [type |-> "string", val |-> s]
BinaryValue(b) == [type |-> "binary", val |-> b]
NothingValue == [type |-> "nothing", val |-> <<>>]
IntValue == [type |-> "int", val |-> <<>>]

None == <<>>
Some(v) == <<v>>

\* the default of `--timeout`, 10_000_000_000 ns
DEFAULT_TIMEOUT_SECS == 10

NoDuration == [wrap |-> 0, secs |-> -1000]

\* Duration::from_nanos(v as u64): a negative i64 becomes 2^64 + v
from_nanos_as_u64(v) == [wrap |-> IF v < 0 THEN 1 ELSE 0, secs |-> v]

\* the Duration of a number of seconds
Secs(n) == [wrap |-> 0, secs |-> n]

\* timeout_val.unwrap_or(10_000_000_000)
unwrap_or(opt, default) == IF opt = None THEN default ELSE opt[1]

Min(a, b) == IF a < b THEN a ELSE b
Prefix(s, n) == SubSeq(s, 1, n)

\* a zeroed byte buffer that has been written from its start: the bytes written,
\* followed by `zeros` bytes that are still zero
\* Vec::truncate(n) on such a buffer (listen.rs 137, connect.rs 151)
truncate_missing(buffer, n) == buffer
truncate(buffer, n) ==
    IF n >= Len(buffer.data) + buffer.zeros THEN buffer
    ELSE IF n >= Len(buffer.data) THEN [buffer EXCEPT !.zeros = n - Len(buffer.data)]
    ELSE [data |-> Prefix(buffer.data, n), zeros |-> 0]

\* the bytes of a buffer
into_vec(buffer) == buffer.data \o [i \in 1..buffer.zeros |-> 0]

\* u16::try_from(i64)
try_into_u16_truncating(v) == [ok |-> TRUE, val |-> v % 65536]
try_into_u16(v) ==
    IF v >= 0 /\ v <= 65535 THEN [ok |-> TRUE, val |-> v] ELSE [ok |-> FALSE, val |-> 0]

----------------------------------------------------------------------------
(* socket connect: Connect::run, one step per fallible statement, with the *)
(* network it talks to and the consumer of the stream it returns.          *)

PortVals == {-1, 0, 80, 65535, 65536, 65616}
TimeoutVals == {-1, 0, 2}
ConfigVals == {5}
InputVals ==
    {StringValue(s) : s \in SeqsUpTo(Chars, MaxLen)}
    \cup {BinaryValue(b) : b \in SeqsUpTo(Bytes, MaxLen)}
    \cup {NothingValue, IntValue}

\* the receive buffer of the UDP path, vec![0u8; 65535]
UDP_BUFFER_SIZE == 65535

\* a datagram reaches the client's socket from the address the call targets or
\* from a host it never addressed, empty or with two bytes
DatagramSources == {"A1", "X"}
DatagramData == {<<>>, <<3, 4>>}

Op(name, d, b, a) == [op |-> name, timeout |-> d, bytes |-> b, addr |-> a]

ConnectInit ==
    /\ cpc = "port"
    /\ port_val \in PortVals
    /\ timeout_val \in {None} \cup {Some(t) : t \in TimeoutVals}
    /\ config_timeout \in {None} \cup {Some(t) : t \in ConfigVals}
    /\ use_udp \in BOOLEAN
    /\ input_val \in InputVals
    /\ port = -1
    /\ timeout = NoDuration
    /\ input_bytes = <<>>
    /\ resolved = None
    /\ socket_addr = "none"
    /\ io = <<>>
    /\ cresult = "running"
    /\ sock = "none"
    /\ delivered = <<>>
    /\ written = <<>>
    /\ echoed = <<>>
    /\ peer_closed = FALSE
    /\ reply = <<>>
    /\ stream = "none"

CFail(err) ==
    /\ cpc' = "done"
    /\ cresult' = err

\* a socket that goes out of scope is closed
drop(s) == IF s = "open" THEN "closed" ELSE s

\* connect.rs 66-75: the port argument is converted to u16
ParsePort ==
    /\ cpc = "port"
    /\ LET r == try_into_u16(port_val)
       IN  IF r.ok
           THEN /\ port' = r.val
                /\ cpc' = "timeout"
                /\ UNCHANGED cresult
           ELSE /\ CFail("Invalid port number")
                /\ UNCHANGED port
    /\ UNCHANGED <<port_val, timeout_val, config_timeout, use_udp, input_val,
                   timeout, input_bytes, resolved, socket_addr, io>>
    /\ UNCHANGED netvars
    /\ UNCHANGED lvars

\* connect.rs 79-82: the timeout of the call; the process configuration is not read
ResolveTimeout ==
    /\ cpc = "timeout"
    /\ timeout' = from_nanos_as_u64(unwrap_or(timeout_val, DEFAULT_TIMEOUT_SECS))
    /\ cpc' = "input"
    /\ UNCHANGED <<port_val, timeout_val, config_timeout, use_udp, input_val,
                   port, input_bytes, resolved, socket_addr, io, cresult>>
    /\ UNCHANGED netvars
    /\ UNCHANGED lvars

\* connect.rs 84-97: the payload from the pipeline input; a value that is not a
\* string, binary or nothing is refused
ReadInput_lenient ==
    /\ cpc = "input"
    /\ input_bytes' = IF input_val.type = "string" THEN into_bytes(input_val.val)
                      ELSE input_val.val
    /\ cpc' = "resolve"
    /\ UNCHANGED <<port_val, timeout_val, config_timeout, use_udp, input_val,
                   port, timeout, resolved, socket_addr, io, cresult>>
    /\ UNCHANGED netvars
    /\ UNCHANGED lvars
ReadInput ==
    /\ cpc = "input"
    /\ IF input_val.type = "string"
       THEN input_bytes' = into_bytes(input_val.val) /\ cpc' = "resolve" /\ UNCHANGED cresult
       ELSE IF input_val.type = "binary"
       THEN input_bytes' = input_val.val /\ cpc' = "resolve" /\ UNCHANGED cresult
       ELSE IF input_val.type = "nothing"
       THEN input_bytes' = <<>> /\ cpc' = "resolve" /\ UNCHANGED cresult
       ELSE CFail("Unsupported input type") /\ UNCHANGED input_bytes
    /\ UNCHANGED <<port_val, timeout_val, config_timeout, use_udp, input_val,
                   port, timeout, resolved, socket_addr, io>>
    /\ UNCHANGED netvars
    /\ UNCHANGED lvars

\* what to_socket_addrs can answer: an error, or a list of addresses
ResolverAnswers == {[ok |-> FALSE, addrs |-> <<>>], [ok |-> TRUE, addrs |-> <<>>],
                    [ok |-> TRUE, addrs |-> <<"A1">>], [ok |-> TRUE, addrs |-> <<"A2", "A1">>]}

\* connect.rs 111: addrs.next(), the first address of a resolution that has one
addrs_last(addrs) == addrs[Len(addrs)]
addrs_next(addrs) == Head(addrs)

\* connect.rs 99-117: resolution, the first address is taken
Resolve ==
    /\ cpc = "resolve"
    /\ \E r \in ResolverAnswers :
        /\ resolved' = Some(r)
        /\ io' = Append(io, Op("resolve", NoDuration, <<>>, "none"))
        /\ IF ~r.ok
           THEN CFail("Failed to resolve host") /\ UNCHANGED socket_addr
           ELSE IF r.addrs = <<>>
           THEN CFail("No IP addresses found for host") /\ UNCHANGED socket_addr
           ELSE /\ socket_addr' = addrs_next(r.addrs)
                /\ cpc' = IF use_udp THEN "udp_bind" ELSE "tcp_connect"
                /\ UNCHANGED cresult
    /\ UNCHANGED <<port_val, timeout_val, config_timeout, use_udp, input_val,
                   port, timeout, input_bytes>>
    /\ UNCHANGED netvars
    /\ UNCHANGED lvars

\* one fallible I/O statement of Connect::run: it is logged, and fails or goes on
IoStep(at, o, ok, err, next, result) ==
    /\ cpc = at
    /\ io' = Append(io, o)
    /\ IF ok THEN cpc' = next /\ cresult' = result
       ELSE CFail(err)
    /\ UNCHANGED <<port_val, timeout_val, config_timeout, use_udp, input_val,
                   port, timeout, input_bytes, resolved, socket_addr>>
    /\ UNCHANGED lvars

\* the outcomes of a call that takes a timeout: connect_timeout and
\* set_read_timeout(Some(d)) refuse a zero Duration
timed_outcomes(d) == IF d = Secs(0) THEN {FALSE} ELSE BOOLEAN

\* connect.rs 121-125
UdpBind ==
    \E ok \in BOOLEAN :
        /\ IoStep("udp_bind", Op("udp_bind", NoDuration, <<>>, "0.0.0.0:0"), ok,
                  "Failed to bind UDP socket", "udp_set_read_timeout", cresult)
        /\ sock' = IF ok THEN "open" ELSE sock
        /\ UNCHANGED <<delivered, written, echoed, peer_closed, reply, stream>>

\* connect.rs 126-130
UdpSetReadTimeout ==
    \E ok \in timed_outcomes(timeout) :
        /\ IoStep("udp_set_read_timeout", Op("set_read_timeout", timeout, <<>>, "none"), ok,
                  "Failed to set UDP read timeout", "udp_send_to", cresult)
        /\ sock' = IF ok THEN sock ELSE drop(sock)
        /\ UNCHANGED <<delivered, written, echoed, peer_closed, reply, stream>>

\* connect.rs 133-137: the payload leaves as one datagram
UdpSendTo ==
    \E ok \in BOOLEAN :
        /\ IoStep("udp_send_to", Op("send_to", NoDuration, input_bytes, socket_addr), ok,
                  "Failed to send UDP packet", "udp_recv_from", cresult)
        /\ sock' = IF ok THEN sock ELSE drop(sock)
        /\ UNCHANGED <<delivered, written, echoed, peer_closed, reply, stream>>

\* a datagram reaches the bound socket, from any host, at any time while the
\* socket exists
DatagramArrives ==
    /\ use_udp
    /\ sock = "open"
    /\ Len(delivered) < MaxDatagrams
    /\ \E s \in DatagramSources, d \in DatagramData :
        delivered' = Append(delivered, [src |-> s, data |-> d])
    /\ UNCHANGED <<cpc, port_val, timeout_val, config_timeout, use_udp, input_val, port,
                   timeout, input_bytes, resolved, socket_addr, io, cresult>>
    /\ UNCHANGED <<sock, written, echoed, peer_closed, reply, stream>>
    /\ UNCHANGED lvars

\* connect.rs 139: vec![0u8; 65535] after a datagram of n bytes was received into it
recv_into(data, n) == [data |-> Prefix(data, n), zeros |-> UDP_BUFFER_SIZE - n]

\* connect.rs 142-144: recv_from on a socket that is not connected returns the
\* oldest datagram waiting at the socket, whoever sent it
recv_from_newest(queue) == queue[Len(queue)]
recv_from(queue) == Head(queue)

\* connect.rs 139-153: one receive, the buffer truncated to the bytes received;
\* the call returns and the socket is dropped
UdpRecvFrom ==
    /\ \/ /\ delivered # <<>>
          /\ LET d == recv_from(delivered)
                 bytes_read == Min(Len(d.data), UDP_BUFFER_SIZE)
             IN  reply' = into_vec(truncate(recv_into(d.data, bytes_read), bytes_read))
          /\ IoStep("udp_recv_from", Op("recv_from", NoDuration, <<>>, "none"), TRUE,
                    "Failed to receive UDP packet (timed out?)", "done", "Value")
       \/ /\ IoStep("udp_recv_from", Op("recv_from", NoDuration, <<>>, "none"), FALSE,
                    "Failed to receive UDP packet (timed out?)", "done", "Value")
          /\ UNCHANGED reply
    /\ sock' = drop(sock)
    /\ UNCHANGED <<delivered, written, echoed, peer_closed, stream>>

\* connect.rs 156-164
TcpConnect ==
    \E ok \in timed_outcomes(timeout) :
        /\ IoStep("tcp_connect", Op("connect_timeout", timeout, <<>>, socket_addr), ok,
                  "Connection timed out or failed", "tcp_set_read_timeout", cresult)
        /\ sock' = IF ok THEN "open" ELSE sock
        /\ UNCHANGED <<delivered, written, echoed, peer_closed, reply, stream>>

\* connect.rs 165-169
TcpSetReadTimeout_default ==
    \E ok \in BOOLEAN :
        /\ IoStep("tcp_set_read_timeout",
                  Op("set_read_timeout", Secs(DEFAULT_TIMEOUT_SECS), <<>>, "none"), ok,
                  "Failed to set read timeout", "tcp_write_all", cresult)
        /\ sock' = IF ok THEN sock ELSE drop(sock)
        /\ UNCHANGED <<delivered, written, echoed, peer_closed, reply, stream>>
TcpSetReadTimeout ==
    \E ok \in timed_outcomes(timeout) :
        /\ IoStep("tcp_set_read_timeout", Op("set_read_timeout", timeout, <<>>, "none"), ok,
                  "Failed to set read timeout", "tcp_write_all", cresult)
        /\ sock' = IF ok THEN sock ELSE drop(sock)
        /\ UNCHANGED <<delivered, written, echoed, peer_closed, reply, stream>>

\* connect.rs 171: write_all writes the whole buffer, or fails having written
\* less than all of it
write_once(buf) == {[ok |-> TRUE, n |-> Min(Len(buf), 1)]}
write_all(buf) ==
    {[ok |-> TRUE, n |-> Len(buf)]} \cup {[ok |-> FALSE, n |-> k] : k \in 0..(Len(buf) - 1)}

\* connect.rs 171-192: the payload is written, then the stream is wrapped and returned
TcpWriteAll ==
    \E w \in write_all(input_bytes) :
        /\ IoStep("tcp_write_all", Op("write_all", NoDuration, input_bytes, "none"), w.ok,
                  "Failed to write to socket", "done", "ByteStream")
        /\ written' = Prefix(input_bytes, w.n)
        /\ stream' = IF w.ok THEN "live" ELSE stream
        /\ sock' = IF w.ok THEN sock ELSE drop(sock)
        /\ UNCHANGED <<delivered, echoed, peer_closed, reply>>

\* the peer of the TCP connection echoes its input verbatim, byte after byte
PeerEcho ==
    /\ ~peer_closed
    /\ Len(echoed) < Len(written)
    /\ echoed' = Append(echoed, written[Len(echoed) + 1])
    /\ UNCHANGED <<cpc, port_val, timeout_val, config_timeout, use_udp, input_val, port,
                   timeout, input_bytes, resolved, socket_addr, io, cresult>>
    /\ UNCHANGED <<sock, delivered, written, peer_closed, reply, stream>>
    /\ UNCHANGED lvars

\* the echoing peer closes once the client has stopped writing and all it
\* received is echoed
PeerClose ==
    /\ ~use_udp
    /\ cpc = "done"
    /\ sock # "none"
    /\ ~peer_closed
    /\ Len(echoed) = Len(written)
    /\ peer_closed' = TRUE
    /\ UNCHANGED <<cpc, port_val, timeout_val, config_timeout, use_udp, input_val, port,
                   timeout, input_bytes, resolved, socket_addr, io, cresult>>
    /\ UNCHANGED <<sock, delivered, written, echoed, reply, stream>>
    /\ UNCHANGED lvars

\* connect.rs 177-192: the consumer of the returned ByteStream reads from the
\* connection: some of the bytes that have come back, the end of the stream when
\* the peer has closed (the stream is dropped), or a read that times out
StreamRead ==
    /\ stream = "live"
    /\ LET unread == SubSeq(echoed, Len(reply) + 1, Len(echoed))
       IN  IF unread # <<>>
           THEN /\ \E k \in 1..Len(unread) : reply' = reply \o Prefix(unread, k)
                /\ UNCHANGED <<stream, sock>>
           ELSE /\ stream' = IF peer_closed THEN "eof" ELSE "error"
                /\ sock' = drop(sock)
                /\ UNCHANGED reply
    /\ UNCHANGED <<cpc, port_val, timeout_val, config_timeout, use_udp, input_val, port,
                   timeout, input_bytes, resolved, socket_addr, io, cresult>>
    /\ UNCHANGED <<delivered, written, echoed, peer_closed>>
    /\ UNCHANGED lvars

\* the consumer abandons the stream: it is dropped, and the connection with it
StreamDrop ==
    /\ stream = "live"
    /\ stream' = "abandoned"
    /\ sock' = drop(sock)
    /\ UNCHANGED <<cpc, port_val, timeout_val, config_timeout, use_udp, input_val, port,
                   timeout, input_bytes, resolved, socket_addr, io, cresult>>
    /\ UNCHANGED <<delivered, written, echoed, peer_closed, reply>>
    /\ UNCHANGED lvars

ConnectNext ==
    \/ ParsePort
    \/ ResolveTimeout
    \/ ReadInput
    \/ Resolve
    \/ UdpBind
    \/ UdpSetReadTimeout
    \/ UdpSendTo
    \/ DatagramArrives
    \/ UdpRecvFrom
    \/ TcpConnect
    \/ TcpSetReadTimeout
    \/ TcpWriteAll
    \/ PeerEcho
    \/ PeerClose
    \/ StreamRead
    \/ StreamDrop

ConnectIdle ==
    /\ cpc = "idle"
    /\ port_val = 0
    /\ timeout_val = None
    /\ config_timeout = None
    /\ use_udp = FALSE
    /\ input_val = NothingValue
    /\ port = -1
    /\ timeout = NoDuration
    /\ input_bytes = <<>>
    /\ resolved = None
    /\ socket_addr = "none"
    /\ io = <<>>
    /\ cresult = "idle"
    /\ sock = "none"
    /\ delivered = <<>>
    /\ written = <<>>
    /\ echoed = <<>>
    /\ peer_closed = FALSE
    /\ reply = <<>>
    /\ stream = "none"

----------------------------------------------------------------------------
(* socket listen: Listen::run, the peers, the signal and the handlers.     *)

LPortVals == {8080, 65616}

\* a peer closes without sending, or sends two bytes (which one read may or
\* may not return together)
PeerLens == {0, 2}

\* the bytes a peer sends: 1, 2, ..., n
Payload(n) == [i \in 1..n |-> i]

UnsetValue == [type |-> "unset", val |-> <<>>]

\* a connection a peer has made, not yet accepted
NewConn(n) ==
    [sent |-> Payload(n), hpc |-> "backlog", read_timeout |-> NoDuration, steps |-> <<>>,
     request |-> <<>>, calls |-> <<>>, response |-> UnsetValue, written |-> <<>>,
     open |-> TRUE, hres |-> "running"]

\* attempts, accepts, sleeps: the accept attempts, the successful accepts and the
\* sleeps since the signal was raised; after_failure: a connection was accepted
\* after a handler had reported an error; cause: why the loop ended
NoHist == [accepts |-> 0, attempts |-> 0, sleeps |-> 0, after_failure |-> FALSE,
           cause |-> "none"]

ListenIdle ==
    /\ lpc = "idle"
    /\ lport = 0
    /\ is_single_shot = FALSE
    /\ interrupted = FALSE
    /\ listener = "none"
    /\ backlog = <<>>
    /\ arrived = 0
    /\ conn = <<>>
    /\ stderr = {}
    /\ lresult = "idle"
    /\ hist = NoHist

ListenInit ==
    /\ lpc = "bind"
    /\ lport \in LPortVals
    /\ is_single_shot \in BOOLEAN
    /\ interrupted = FALSE
    /\ listener = "none"
    /\ backlog = <<>>
    /\ arrived = 0
    /\ conn = <<>>
    /\ stderr = {}
    /\ lresult = "running"
    /\ hist = NoHist

\* Listen::run returns: the listener is dropped with it
LReturn_keeps_listener(res) ==
    /\ lpc' = "done"
    /\ lresult' = res
    /\ UNCHANGED listener
LReturn(res) ==
    /\ lpc' = "done"
    /\ lresult' = res
    /\ listener' = IF listener = "none" THEN "none" ELSE "dropped"

\* the port of "host:port" as to_socket_addrs parses it: a u16 or an error
parse_port(p) == p >= 0 /\ p <= 65535

\* listen.rs 54-58: a bind error is returned at once
bind_failed_ignored ==
    /\ lresult' = "Err(Failed to bind to address)"
    /\ lpc' = "check"
    /\ UNCHANGED listener
bind_failed == LReturn("Err(Failed to bind to address)")

\* listen.rs 53-58: bind
Bind ==
    /\ lpc = "bind"
    /\ \E ok \in BOOLEAN :
        IF ok /\ parse_port(lport)
        THEN /\ listener' = "blocking"
             /\ lpc' = "set_nonblocking"
             /\ UNCHANGED lresult
        ELSE bind_failed
    /\ UNCHANGED <<lport, is_single_shot, interrupted, backlog, arrived, conn, stderr, hist>>
    /\ UNCHANGED cvars

\* listen.rs 61-67: non-blocking mode, and the banner
SetNonblocking ==
    /\ lpc = "set_nonblocking"
    /\ \E ok \in BOOLEAN :
        IF ok
        THEN /\ listener' = "nonblocking"
             /\ lpc' = "check"
             /\ stderr' = stderr \cup {"Listening on"}
             /\ UNCHANGED lresult
        ELSE /\ LReturn("Err(Failed to set listener to non-blocking)")
             /\ UNCHANGED stderr
    /\ UNCHANGED <<lport, is_single_shot, interrupted, backlog, arrived, conn, hist>>
    /\ UNCHANGED cvars

\* the end of the loop, listen.rs 73 / 95 / 108, and the return of line 113
loop_break(cause) ==
    /\ LReturn("Ok(empty)")
    /\ hist' = [hist EXCEPT !.cause = cause]

\* listen.rs 71-74: the signal is checked, the loop ends if it is raised
check_signal_ignored ==
    /\ lpc' = "accept"
    /\ UNCHANGED <<stderr, lresult, listener, hist>>
check_signal ==
    IF interrupted
    THEN /\ stderr' = stderr \cup {"Server shutting down."}
         /\ loop_break("interrupted")
    ELSE /\ lpc' = "accept"
         /\ UNCHANGED <<stderr, lresult, listener, hist>>

\* listen.rs 69-75: the top of every iteration
CheckSignal ==
    /\ lpc = "check"
    /\ check_signal
    /\ UNCHANGED <<lport, is_single_shot, interrupted, backlog, arrived, conn>>
    /\ UNCHANGED cvars

\* an accept attempt is counted once the signal is raised
Attempt(h, accepted) ==
    LET seen == [h EXCEPT !.after_failure =
                     @ \/ (accepted /\ "Error in connection handler" \in stderr)]
    IN  IF interrupted
        THEN [seen EXCEPT !.attempts = @ + 1, !.accepts = @ + (IF accepted THEN 1 ELSE 0)]
        ELSE seen

\* listen.rs 94-96: single-shot mode breaks out of the loop after the dispatch
after_dispatch_no_break ==
    /\ lpc' = "check"
    /\ hist' = Attempt(hist, TRUE)
    /\ UNCHANGED <<lresult, listener>>
after_dispatch_sleeps ==
    IF is_single_shot
    THEN /\ LReturn("Ok(empty)")
         /\ hist' = [Attempt(hist, TRUE) EXCEPT !.cause = "single"]
    ELSE /\ lpc' = "sleep"
         /\ hist' = Attempt(hist, TRUE)
         /\ UNCHANGED <<lresult, listener>>
after_dispatch ==
    IF is_single_shot
    THEN /\ LReturn("Ok(empty)")
         /\ hist' = [Attempt(hist, TRUE) EXCEPT !.cause = "single"]
    ELSE /\ lpc' = "check"
         /\ hist' = Attempt(hist, TRUE)
         /\ UNCHANGED <<lresult, listener>>

\* listen.rs 77-97: a connection is accepted and its handler thread spawned
AcceptOk ==
    /\ lpc = "accept"
    /\ backlog # <<>>
    /\ conn' = [conn EXCEPT ![Head(backlog)].hpc = "set_read_timeout"]
    /\ backlog' = Tail(backlog)
    /\ after_dispatch
    /\ UNCHANGED <<lport, is_single_shot, interrupted, arrived, stderr>>
    /\ UNCHANGED cvars

\* listen.rs 98-102: nobody is waiting, the loop goes to sleep
AcceptWouldBlock ==
    /\ lpc = "accept"
    /\ backlog = <<>>
    /\ lpc' = "sleep"
    /\ hist' = IF interrupted THEN [Attempt(hist, FALSE) EXCEPT !.sleeps = @ + 1] ELSE hist
    /\ UNCHANGED <<lport, is_single_shot, interrupted, listener, backlog, arrived,
                   conn, stderr, lresult>>
    /\ UNCHANGED cvars

\* listen.rs 103: `continue`, back to the top of the loop
after_sleep_skips_check == lpc' = "accept"
after_sleep == lpc' = "check"

\* listen.rs 102-103: the 50 ms are over
SleepOver ==
    /\ lpc = "sleep"
    /\ after_sleep
    /\ UNCHANGED <<lport, is_single_shot, interrupted, listener, backlog, arrived,
                   conn, stderr, lresult, hist>>
    /\ UNCHANGED cvars

\* listen.rs 105-109 and 113: any other accept error is printed, the loop ends
\* and the call returns its empty result
accept_failed_goes_on ==
    /\ stderr' = stderr \cup {"Error accepting connection"}
    /\ lpc' = "check"
    /\ hist' = [Attempt(hist, FALSE) EXCEPT !.cause = "accept_error"]
    /\ UNCHANGED <<lresult, listener>>
accept_failed ==
    /\ stderr' = stderr \cup {"Error accepting connection"}
    /\ LReturn("Ok(empty)")
    /\ hist' = [Attempt(hist, FALSE) EXCEPT !.cause = "accept_error"]

AcceptError ==
    /\ lpc = "accept"
    /\ accept_failed
    /\ UNCHANGED <<lport, is_single_shot, interrupted, backlog, arrived, conn>>
    /\ UNCHANGED cvars

\* the signal source: Ctrl-C, at any moment of the call
Interrupt ==
    /\ lresult = "running"
    /\ ~interrupted
    /\ interrupted' = TRUE
    /\ hist' = [hist EXCEPT !.sleeps = IF lpc = "sleep" THEN 1 ELSE 0]
    /\ UNCHANGED <<lpc, lport, is_single_shot, listener, backlog, arrived, conn,
                   stderr, lresult>>
    /\ UNCHANGED cvars

\* a peer connects to the listening socket and sends its bytes
PeerConnects ==
    /\ listener \in {"blocking", "nonblocking"}
    /\ arrived < MaxConns
    /\ \E n \in PeerLens :
        /\ conn' = Append(conn, NewConn(n))
        /\ backlog' = Append(backlog, arrived + 1)
        /\ arrived' = arrived + 1
    /\ UNCHANGED <<lpc, lport, is_single_shot, interrupted, listener, stderr, lresult, hist>>
    /\ UNCHANGED cvars

----------------------------------------------------------------------------
(* handle_connection, one thread per accepted connection.                  *)

\* the fixed read timeout of an accepted connection, in seconds
HANDLER_READ_TIMEOUT_SECS == 10
\* the size of the request buffer
REQUEST_BUFFER_SIZE == 4096


\* listen.rs 84-93: the thread's closure; an error of the handler is printed and
\* the thread ends, the stream is dropped with it
handler_returns_propagating(c, rec, res) ==
    /\ conn' = [conn EXCEPT ![c] = [rec EXCEPT !.hpc = "returned", !.hres = res, !.open = FALSE]]
    /\ stderr' = IF res = "Ok" THEN stderr ELSE stderr \cup {"Error in connection handler"}
    /\ IF res = "Ok" \/ lpc = "done"
       THEN UNCHANGED <<lpc, lresult, listener, hist>>
       ELSE /\ LReturn("Err(" \o res \o ")")
            /\ hist' = [hist EXCEPT !.cause = "handler_error"]
    /\ UNCHANGED <<lport, is_single_shot, interrupted, backlog, arrived>>
handler_returns_leaking(c, rec, res) ==
    /\ conn' = [conn EXCEPT ![c] = [rec EXCEPT !.hpc = "returned", !.hres = res]]
    /\ stderr' = IF res = "Ok" THEN stderr ELSE stderr \cup {"Error in connection handler"}
    /\ UNCHANGED <<lpc, lport, is_single_shot, interrupted, listener, backlog, arrived,
                   lresult, hist>>
handler_returns(c, rec, res) ==
    /\ conn' = [conn EXCEPT ![c] = [rec EXCEPT !.hpc = "returned", !.hres = res, !.open = FALSE]]
    /\ stderr' = IF res = "Ok" THEN stderr ELSE stderr \cup {"Error in connection handler"}
    /\ UNCHANGED <<lpc, lport, is_single_shot, interrupted, listener, backlog, arrived,
                   lresult, hist>>

\* a step of the handler that stays in the handler
handler_goes_on_one_at_a_time(c, rec) ==
    /\ \A d \in (1..arrived) \ {c} : conn[d].hpc # "eval_closure"
    /\ conn' = [conn EXCEPT ![c] = rec]
    /\ UNCHANGED <<lpc, lport, is_single_shot, interrupted, listener, backlog, arrived,
                   stderr, lresult, hist>>
handler_goes_on_while_listening(c, rec) ==
    /\ lpc # "done"
    /\ conn' = [conn EXCEPT ![c] = rec]
    /\ UNCHANGED <<lpc, lport, is_single_shot, interrupted, listener, backlog, arrived,
                   stderr, lresult, hist>>
handler_goes_on(c, rec) ==
    /\ conn' = [conn EXCEPT ![c] = rec]
    /\ UNCHANGED <<lpc, lport, is_single_shot, interrupted, listener, backlog, arrived,
                   stderr, lresult, hist>>

\* listen.rs 123-131
SetReadTimeout(c) ==
    /\ conn[c].hpc = "set_read_timeout"
    /\ \E ok \in BOOLEAN :
        LET rec == [conn[c] EXCEPT !.steps = Append(@, "set_read_timeout")]
        IN  IF ok THEN handler_goes_on(c, [rec EXCEPT !.hpc = "read",
                          !.read_timeout = Secs(HANDLER_READ_TIMEOUT_SECS)])
            ELSE handler_returns(c, rec, "Failed to set read timeout")
    /\ UNCHANGED cvars

\* what one read of the stream can return: the bytes that have come in, at most
\* a buffer of them; nothing only when the peer has sent nothing
read_counts(sent) ==
    IF sent = <<>> THEN {0} ELSE 1..Min(Len(sent), REQUEST_BUFFER_SIZE)

\* listen.rs 132-133: the zeroed buffer after a read of n bytes: the bytes read,
\* followed by `zeros` bytes that are still zero
read_into(sent, n) == [data |-> Prefix(sent, n), zeros |-> REQUEST_BUFFER_SIZE - n]

\* listen.rs 132-137: one read, the buffer truncated to the bytes read
Read_until_closed(c) ==
    /\ conn[c].hpc = "read"
    /\ LET rec == [conn[c] EXCEPT !.steps = Append(@, "read")]
           rest == SubSeq(rec.sent, Len(rec.request) + 1, Len(rec.sent))
       IN  \/ \E n \in read_counts(rest) :
                handler_goes_on(c, [rec EXCEPT
                    !.hpc = IF n = Len(rest) THEN "eval_closure" ELSE "read",
                    !.request = @ \o into_vec(truncate(read_into(rest, n), n))])
           \/ handler_returns(c, rec, "Failed to read from socket")
    /\ UNCHANGED cvars
Read(c) ==
    /\ conn[c].hpc = "read"
    /\ LET rec == [conn[c] EXCEPT !.steps = Append(@, "read")]
       IN  \/ \E n \in read_counts(conn[c].sent) :
                handler_goes_on(c, [rec EXCEPT !.hpc = "eval_closure",
                                               !.request = into_vec(truncate(read_into(rec.sent, n), n))])
           \/ handler_returns(c, rec, "Failed to read from socket")
    /\ UNCHANGED cvars

\* what the closure can answer to a request: a value, or an error
ClosureAnswers(request) ==
    {[ok |-> TRUE, value |-> BinaryValue(request)],
     [ok |-> TRUE, value |-> StringValue(<<233>>)],
     [ok |-> TRUE, value |-> IntValue],
     [ok |-> FALSE, value |-> UnsetValue]}

\* listen.rs 152-162: the bytes of the closure's value
response_bytes_any(v) ==
    [ok |-> TRUE, bytes |-> IF v.type = "string" THEN into_bytes(v.val) ELSE v.val]
response_bytes(v) ==
    IF v.type = "string" THEN [ok |-> TRUE, bytes |-> into_bytes(v.val)]
    ELSE IF v.type = "binary" THEN [ok |-> TRUE, bytes |-> v.val]
    ELSE [ok |-> FALSE, bytes |-> <<>>]

\* listen.rs 139-162: the closure is run on the request, its value is matched
EvalClosure(c) ==
    /\ conn[c].hpc = "eval_closure"
    /\ \E a \in ClosureAnswers(conn[c].request) :
        LET called == [conn[c] EXCEPT !.calls = Append(@, conn[c].request),
                                      !.steps = Append(@, "eval_closure")]
        IN  IF ~a.ok
            THEN handler_returns(c, called, "eval_closure failed")
            ELSE IF ~response_bytes(a.value).ok
            THEN handler_returns(c, [called EXCEPT !.response = a.value],
                                 "Unsupported closure output")
            ELSE handler_goes_on(c, [called EXCEPT !.response = a.value, !.hpc = "write_all"])
    /\ UNCHANGED cvars

\* listen.rs 164-174: the response is written in full, or the write fails part-way
WriteAll(c) ==
    /\ conn[c].hpc = "write_all"
    /\ LET bytes == response_bytes(conn[c].response).bytes
           rec == [conn[c] EXCEPT !.steps = Append(@, "write_all")]
       IN  \/ handler_returns(c, [rec EXCEPT !.written = bytes], "Ok")
           \/ \E n \in 0..(Len(bytes) - 1) :
                handler_returns(c, [rec EXCEPT !.written = Prefix(bytes, n)],
                                "Failed to write to socket")
    /\ UNCHANGED cvars

Conns == 1..arrived

ListenNext ==
    \/ Bind
    \/ SetNonblocking
    \/ CheckSignal
    \/ AcceptOk
    \/ AcceptWouldBlock
    \/ AcceptError
    \/ SleepOver
    \/ Interrupt
    \/ PeerConnects
    \/ \E c \in Conns : SetReadTimeout(c)
    \/ \E c \in Conns : Read(c)
    \/ \E c \in Conns : EvalClosure(c)
    \/ \E c \in Conns : WriteAll(c)

----------------------------------------------------------------------------
(* The specifications.                                                     *)

\* the plugin is called with `socket connect`
ConnectCalled == ConnectInit /\ ListenIdle

\* the plugin is called with `socket listen`
ListenCalled == ListenInit /\ ConnectIdle

\* one call of `socket connect`
ConnectSpec == ConnectCalled /\ [][ConnectNext]_vars

\* one call of `socket listen`
ListenSpec == ListenCalled /\ [][ListenNext]_vars

\* the steps of the thread that runs Listen::run
LoopStep ==
    Bind \/ SetNonblocking \/ CheckSignal \/ AcceptOk \/ AcceptWouldBlock \/ AcceptError
    \/ SleepOver

\* the same call, the loop's thread being scheduled for as long as it can step
ListenFairSpec == ListenSpec /\ WF_vars(LoopStep)

----------------------------------------------------------------------------
(* The claims about `socket connect`.                                      *)

\* the steps of Connect::run that come after the timeout is resolved
TimeoutResolved == cpc \notin {"idle", "port", "timeout"} /\ timeout # NoDuration

\* the timeouts the call has handed to the operating system
TimeoutsUsed == {io[i].timeout : i \in {j \in 1..Len(io) : io[j].timeout # NoDuration}}

\* C1: the timeout of the call is the flag if the flag is present, else the
\* timeout of the process configuration if that is present, else 10 seconds;
\* it is the timeout every timed I/O operation of the call is given.
\* (A negative flag is left to the claim about the cast to unsigned.)
C1_TimeoutPrecedence ==
    (TimeoutResolved /\ (timeout_val = None \/ timeout_val[1] >= 0)) =>
        LET expected == IF timeout_val # None THEN Secs(timeout_val[1])
                        ELSE IF config_timeout # None THEN Secs(config_timeout[1])
                        ELSE Secs(DEFAULT_TIMEOUT_SECS)
        IN  timeout = expected /\ TimeoutsUsed \subseteq {expected}

\* C2: a port in 0..65535 passes the conversion and is the port of the call; any
\* other port ends the call with "Invalid port number" before any resolution
\* and before any socket is opened.
C2_PortValidation ==
    /\ (port_val >= 0 /\ port_val <= 65535) =>
          /\ cresult # "Invalid port number"
          /\ cpc \notin {"idle", "port"} => port = port_val
    /\ ~(port_val >= 0 /\ port_val <= 65535) =>
          /\ io = <<>>
          /\ socket_addr = "none"
          /\ cpc \notin {"idle", "port"} => (cpc = "done" /\ cresult = "Invalid port number")

\* a port one multiple of 2^16 above 80 has been refused
C2_Witness ==
    /\ port_val = 65616
    /\ cpc = "done"
    /\ cresult = "Invalid port number"

----------------------------------------------------------------------------
(* The claims about `socket listen`.                                       *)

\* the connections the loop has accepted
Accepted == {c \in Conns : conn[c].hpc # "backlog"}

\* the bytes of a value that is a string or binary
BytesOf(v) == IF v.type = "string" THEN into_bytes(v.val) ELSE v.val

IsPrefix(p, q) == Len(p) <= Len(q) /\ p = SubSeq(q, 1, Len(p))

\* C3: in single-shot mode the loop accepts at most one connection, and once it
\* has accepted one the loop has ended, so that no further accept is attempted
\* whatever is still waiting.
C3_SingleShot ==
    is_single_shot =>
        /\ Cardinality(Accepted) <= 1
        /\ Accepted # {} => (lpc = "done" /\ listener = "dropped")

\* single-shot: one connection accepted, another one left waiting, the loop over
C3_Witness ==
    /\ is_single_shot
    /\ Cardinality(Accepted) = 1
    /\ backlog # <<>>
    /\ lpc = "done"

\* an upper bound on the steps the loop's thread still takes once the signal is raised
StepsLeft ==
    CASE lpc \in {"bind", "accept"} -> 3
      [] lpc \in {"set_nonblocking", "sleep"} -> 2
      [] lpc = "check" -> 1
      [] OTHER -> 0

\* C4: once the signal is raised the loop ends without waiting for a connection:
\* at most one more accept attempt is made and at most one sleep lies after the
\* signal; until the loop has ended its thread always has a step to take,
\* whether or not a connection is waiting, and every such step brings the end
\* nearer, the end being at most three steps away.
C4_CancelWhileIdle ==
    /\ [](interrupted => /\ hist.attempts <= 1
                         /\ hist.sleeps <= 1
                         /\ lpc # "done" => ENABLED LoopStep)
    /\ [][(interrupted /\ lpc' # lpc) => StepsLeft' < StepsLeft]_vars

\* the same as a liveness property of ListenFairSpec: with the loop's thread kept
\* running, a raised signal leads to the end of the loop
LoopEnds == interrupted ~> lpc = "done"

\* the signal came while nobody was waiting: one would-block accept, one sleep, the end
C4_Witness ==
    /\ interrupted
    /\ arrived = 0
    /\ hist.attempts = 1
    /\ hist.sleeps = 1
    /\ hist.cause = "interrupted"
    /\ lpc = "done"

\* C5, as claimed: no connection is accepted after the moment the signal is raised.
C5_NoAcceptAfterSignal == hist.accepts = 0

\* C5, amended: once a check of the loop has seen the signal no connection is
\* accepted; a signal raised between the check and the accept of one iteration
\* lets that one accept succeed, so at most one connection is accepted after the
\* signal, and the loop then ends at its next check (or at once, in single-shot mode).
C5_AtMostOneAcceptAfterSignal ==
    /\ hist.accepts <= 1
    /\ hist.attempts <= 1
    /\ hist.accepts = 1 => lpc \in {"check", "done"}
    /\ hist.cause = "interrupted" => lpc = "done"

\* a connection was accepted after the signal, and the loop ended at the next check
C5_Witness ==
    /\ hist.accepts = 1
    /\ hist.cause = "interrupted"
    /\ lpc = "done"

\* C6: when the closure returns a value that is neither a string nor binary the
\* handler of that connection has ended with "Unsupported closure output" and
\* nothing was written to the connection.
C6_NonByteResult ==
    \A c \in Conns :
        conn[c].response.type \notin {"unset", "string", "binary"} =>
            /\ conn[c].hpc = "returned"
            /\ conn[c].hres = "Unsupported closure output"
            /\ conn[c].written = <<>>
            /\ "write_all" \notin {conn[c].steps[i] : i \in 1..Len(conn[c].steps)}

\* a closure returned an integer
C6_Witness ==
    \E c \in Conns :
        /\ conn[c].response = IntValue
        /\ conn[c].hres = "Unsupported closure output"
        /\ ~conn[c].open

\* the record of a connection changes in a step of its handler
HandlerStepped(c) == conn[c].hpc # "backlog" /\ conn'[c] # conn[c]

HandlerFailed(c) == conn[c].hpc = "returned" /\ conn[c].hres # "Ok"

\* C7: a step of a connection's handler, a failing one included, leaves the accept
\* loop and every other connection as they are; the loop never ends because of a
\* handler; and a handler that meets no failure of its own has written the whole
\* reply of its closure, whatever happened to the other handlers.
C7_HandlerIsolation ==
    /\ [][\A c \in Conns : HandlerStepped(c) =>
            /\ UNCHANGED <<lpc, lresult, listener, backlog, interrupted, arrived>>
            /\ \A d \in Conns \ {c} : conn'[d] = conn[d]]_vars
    /\ [](hist.cause \in {"none", "interrupted", "single", "accept_error"})
    /\ [](\A c \in Conns : conn[c].hres = "Ok" =>
            conn[c].written = BytesOf(conn[c].response))

\* the first handler failed, the second connection was accepted after that and
\* was answered in full, and the loop is still running
C7_Witness ==
    /\ arrived >= 2
    /\ HandlerFailed(1)
    /\ hist.after_failure
    /\ conn[2].hres = "Ok"
    /\ conn[2].response = BinaryValue(<<1, 2>>)
    /\ conn[2].written = <<1, 2>>
    /\ lpc \in {"check", "accept", "sleep"}

\* C8, as claimed: after an accept error other than would-block the call ends in
\* an error, not in its empty result.
C8_AcceptErrorSurfaced ==
    hist.cause = "accept_error" => (lpc = "done" /\ lresult # "Ok(empty)")

\* C8, amended: after an accept error other than would-block the loop has ended,
\* the error has been printed on stderr, the listener is released, and the call
\* returns its normal empty result.
C8_AcceptErrorPrinted ==
    hist.cause = "accept_error" =>
        /\ lpc = "done"
        /\ "Error accepting connection" \in stderr
        /\ listener = "dropped"
        /\ lresult = "Ok(empty)"

\* an accept failed while a connection was waiting
C8_Witness ==
    /\ hist.cause = "accept_error"
    /\ backlog # <<>>
    /\ lresult = "Ok(empty)"

\* C9: when the bind fails the call has returned the bind error: no listener
\* exists, the loop was not entered (no banner, no check, no accept attempt), no
\* connection was accepted and no closure was run.
C9_BindFailure ==
    lresult = "Err(Failed to bind to address)" =>
        /\ lpc = "done"
        /\ listener = "none"
        /\ stderr = {}
        /\ hist.attempts = 0 /\ hist.cause = "none"
        /\ conn = <<>> /\ backlog = <<>>

\* the bind of a valid port failed
C9_Witness ==
    /\ lresult = "Err(Failed to bind to address)"
    /\ lport = 8080
    /\ lpc = "done"

\* C10: the steps of a handler are a prefix of set_read_timeout, read,
\* eval_closure, write_all; the closure is run at most once, on the bytes the one
\* read returned; bytes are written only once the closure has returned a string or
\* binary, and they are the bytes of that value (all of them unless the write fails).
HandlerSteps == <<"set_read_timeout", "read", "eval_closure", "write_all">>
C10_ReadCallWrite ==
    \A c \in Conns :
        LET h == conn[c]
            did(step) == step \in {h.steps[i] : i \in 1..Len(h.steps)}
        IN  /\ IsPrefix(h.steps, HandlerSteps)
            /\ Len(h.calls) = (IF did("eval_closure") THEN 1 ELSE 0)
            /\ did("eval_closure") =>
                  /\ h.calls = <<h.request>>
                  /\ IsPrefix(h.request, h.sent)
            /\ ~did("eval_closure") => h.response = UnsetValue
            /\ (did("write_all") \/ h.hpc = "write_all") =>
                  h.response.type \in {"string", "binary"}
            /\ ~did("write_all") => h.written = <<>>
            /\ did("write_all") =>
                  /\ IsPrefix(h.written, BytesOf(h.response))
                  /\ h.hres = "Ok" <=> h.written = BytesOf(h.response)

\* a handler read one of two bytes, ran the closure on it and wrote the two
\* bytes of the string it returned
C10_Witness ==
    \E c \in Conns :
        /\ conn[c].sent = <<1, 2>>
        /\ conn[c].calls = << <<1>> >>
        /\ conn[c].response = StringValue(<<233>>)
        /\ conn[c].written = <<195, 169>>
        /\ conn[c].hres = "Ok"

\* the handler of a connection is between its first and its last step
InFlight(c) == conn[c].hpc \in {"set_read_timeout", "read", "eval_closure", "write_all"}

BacklogSet == {backlog[i] : i \in 1..Len(backlog)}

\* C11: a connection is open exactly until its handler returns, on every exit
\* path; once the handler has returned nothing more happens on the connection;
\* and a connection leaves the backlog once, to one handler: the waiting
\* connections are distinct and are the ones no handler has.
C11_ClosedOnReturn ==
    /\ [](\A c \in Conns :
            /\ conn[c].open <=> conn[c].hpc # "returned"
            /\ conn[c].hpc = "returned" <=> conn[c].hres # "running"
            /\ c \in BacklogSet <=> conn[c].hpc = "backlog")
    /\ [](Cardinality(BacklogSet) = Len(backlog))
    /\ [][\A c \in Conns : conn[c].hpc = "returned" => conn'[c] = conn[c]]_vars

\* two handlers have returned, one after a failed read and one after a complete
\* write, and both connections are closed
C11_Witness ==
    /\ arrived >= 2
    /\ conn[1].hres = "Failed to read from socket" /\ ~conn[1].open
    /\ conn[2].hres = "Ok" /\ ~conn[2].open
    /\ conn[2].written # <<>>

\* C12: whatever ended the loop (the signal, single-shot mode, an accept error),
\* the listener is released and the call has returned its empty result; from then
\* on the loop stays ended, nothing is accepted or dispatched, no peer can
\* connect, and the result does not change.
C12_LoopExitTerminal ==
    /\ [](hist.cause # "none" =>
            /\ hist.cause \in {"interrupted", "single", "accept_error"}
            /\ lpc = "done"
            /\ listener = "dropped"
            /\ lresult = "Ok(empty)")
    /\ [](lpc = "done" => ~ENABLED LoopStep /\ ~ENABLED PeerConnects)
    /\ [][lpc = "done" =>
            /\ lpc' = "done"
            /\ UNCHANGED <<lresult, listener, backlog, arrived>>
            /\ hist'.attempts = hist.attempts
            /\ \A c \in Conns : conn[c].hpc = "backlog" => conn'[c] = conn[c]]_vars

\* the signal ended the loop while a connection was still waiting: it is never accepted
C12_Witness ==
    /\ hist.cause = "interrupted"
    /\ lpc = "done"
    /\ listener = "dropped"
    /\ backlog # <<>>
    /\ lresult = "Ok(empty)"

\* the next step of a handler when nothing fails
Progress(c) ==
    \/ SetReadTimeout(c) /\ conn'[c].hpc = "read"
    \/ Read(c) /\ conn'[c].hpc = "eval_closure"
    \/ EvalClosure(c) /\ conn'[c].hpc = "write_all"
    \/ WriteAll(c) /\ conn'[c].hres = "Ok"

\* C13: while the closure of one connection has not returned, the loop can take
\* its next step (check the signal, accept a waiting connection and dispatch its
\* handler, sleep), and the handler of every other connection can take its own.
C13_HangingCallback ==
    \A c \in Conns :
        conn[c].hpc = "eval_closure" =>
            /\ lpc # "done" => ENABLED LoopStep
            /\ (lpc = "accept" /\ backlog # <<>>) => ENABLED AcceptOk
            /\ \A d \in Conns \ {c} : InFlight(d) => ENABLED Progress(d)

\* the first closure has still not returned; the second connection was
\* answered in full and the loop is about to accept again
C13_Witness ==
    /\ arrived >= 2
    /\ ~is_single_shot
    /\ conn[1].hpc = "eval_closure"
    /\ conn[2].hres = "Ok"
    /\ conn[2].written = <<1, 2>>
    /\ lpc = "accept"

\* C14: when the loop has ended, by the signal or in single-shot mode, a handler
\* that was dispatched is still where it was and can take its next step, whatever
\* that step is; the step that ends the loop changes no dispatched handler.
C14_HandlersOutliveLoop ==
    /\ [](lpc = "done" => \A c \in Conns : InFlight(c) => ENABLED Progress(c))
    /\ [][(lpc # "done" /\ lpc' = "done") =>
            \A c \in Conns : InFlight(c) => conn'[c] = conn[c]]_vars

\* the signal ended the loop while one handler was in its closure and another
\* had not read yet
C14_Witness ==
    /\ arrived >= 2
    /\ hist.cause = "interrupted"
    /\ lpc = "done"
    /\ conn[1].hpc = "eval_closure"
    /\ conn[2].hpc = "read"

----------------------------------------------------------------------------
(* The claims about the network side of `socket connect`.                  *)

\* the positions in the I/O log of the operations of one name
OpsNamed(name) == {i \in 1..Len(io) : io[i].op = name}

\* the operations of the log that need a socket: all but the resolution
SocketOps == {i \in 1..Len(io) : io[i].op # "resolve"}

\* C15: when the resolver answers with an error or with no address, the call
\* has ended with the matching error and has done nothing but resolve: no socket,
\* no bind, no connect, no send; when it answers with addresses, the address of the
\* call and of every send and connect is the first of them; and no socket
\* operation happens without such an answer.
C15_ResolutionFailure ==
    /\ (resolved # None /\ (~resolved[1].ok \/ resolved[1].addrs = <<>>)) =>
          /\ cpc = "done"
          /\ cresult = IF ~resolved[1].ok THEN "Failed to resolve host"
                       ELSE "No IP addresses found for host"
          /\ SocketOps = {}
          /\ sock = "none" /\ socket_addr = "none"
          /\ written = <<>> /\ delivered = <<>> /\ stream = "none"
    /\ (resolved # None /\ resolved[1].ok /\ resolved[1].addrs # <<>>) =>
          /\ socket_addr = resolved[1].addrs[1]
          /\ \A i \in OpsNamed("send_to") \cup OpsNamed("connect_timeout") :
                io[i].addr = resolved[1].addrs[1]
    /\ (SocketOps # {} \/ sock # "none") =>
          resolved # None /\ resolved[1].ok /\ resolved[1].addrs # <<>>

\* a UDP call with a payload was given an empty list of addresses
C15_Witness ==
    /\ use_udp
    /\ input_bytes # <<>>
    /\ resolved = Some([ok |-> TRUE, addrs |-> <<>>])
    /\ cpc = "done"
    /\ cresult = "No IP addresses found for host"

\* C16: the timeout is resolved before the first I/O operation and never changes
\* afterwards; every connect deadline and every read timeout of the call is that
\* Duration; and whenever a payload was written (TCP) or sent (UDP), the read
\* timeout had been set before.
C16_OneTimeout ==
    /\ [](io # <<>> => timeout # NoDuration)
    /\ [](\A i \in OpsNamed("connect_timeout") \cup OpsNamed("set_read_timeout") :
            io[i].timeout = timeout)
    /\ [](\A j \in OpsNamed("write_all") \cup OpsNamed("send_to") :
            \E i \in OpsNamed("set_read_timeout") : i < j)
    /\ [](written # <<>> => OpsNamed("set_read_timeout") # {})
    /\ [][timeout # NoDuration => timeout' = timeout]_vars

\* a TCP call with --timeout 2sec has connected, set its read timeout and written
C16_Witness ==
    /\ ~use_udp
    /\ timeout_val = Some(2)
    /\ OpsNamed("connect_timeout") # {}
    /\ OpsNamed("set_read_timeout") # {}
    /\ written # <<>>
    /\ cresult = "ByteStream"

\* C17: a UDP call sends at most once, the whole payload to the resolved
\* address, and receives at most once, after the send; when it succeeds it has
\* sent once and received once, and its value is the data of the first datagram
\* delivered to its socket, all of it, whoever sent it and whatever was delivered
\* later; once the call has returned its value never changes and the socket is gone.
C17_UdpOneDatagramOneReceive ==
    /\ [](use_udp =>
            /\ Cardinality(OpsNamed("send_to")) <= 1
            /\ Cardinality(OpsNamed("recv_from")) <= 1
            /\ \A i \in OpsNamed("send_to") :
                  io[i].bytes = input_bytes /\ io[i].addr = socket_addr
            /\ \A j \in OpsNamed("recv_from") : j > 1 /\ io[j - 1].op = "send_to"
            /\ cresult = "Value" =>
                  /\ cpc = "done"
                  /\ Cardinality(OpsNamed("send_to")) = 1
                  /\ Cardinality(OpsNamed("recv_from")) = 1
                  /\ delivered # <<>>
                  /\ reply = delivered[1].data
                  /\ Len(reply) <= UDP_BUFFER_SIZE
                  /\ sock = "closed"
            /\ cresult # "Value" => reply = <<>>)
    /\ [][(use_udp /\ cpc = "done") => UNCHANGED <<reply, delivered, io, cresult, sock>>]_vars

\* the call returned the two bytes of a datagram that came from a host it never
\* addressed; the empty datagram of the addressed host, delivered later, was not read
C17_Witness ==
    /\ use_udp
    /\ cresult = "Value"
    /\ input_bytes # <<>>
    /\ Len(delivered) = 2
    /\ delivered[1] = [src |-> "X", data |-> <<3, 4>>]
    /\ delivered[2] = [src |-> socket_addr, data |-> <<>>]
    /\ reply = <<3, 4>>

\* C18: the stream exists exactly when the call has returned it, and then the
\* whole payload has been written; a failed write returns the write error, with
\* less than the payload written and no stream; at the return the connection is
\* open and stays open while the stream is live; what was read of the stream is
\* always a prefix of the payload, and at the end of the stream it is the payload.
C18_TcpReplyStream ==
    /\ [](stream # "none" <=> cresult = "ByteStream")
    /\ [](stream # "none" => ~use_udp /\ cpc = "done" /\ written = input_bytes)
    /\ [](cresult = "Failed to write to socket" =>
            /\ stream = "none" /\ reply = <<>>
            /\ Len(written) < Len(input_bytes)
            /\ sock = "closed")
    /\ [](stream = "live" => sock = "open")
    /\ [](~use_udp => IsPrefix(reply, input_bytes))
    /\ [](stream = "eof" => reply = input_bytes)
    /\ [][(cresult # "ByteStream" /\ cresult' = "ByteStream") =>
            sock' = "open" /\ stream' = "live" /\ reply' = <<>>]_vars

\* the two UTF-8 bytes of a one-character string came back and the stream was
\* read to its end
C18_Witness ==
    /\ input_val = StringValue(<<233>>)
    /\ written = <<195, 169>>
    /\ stream = "eof"
    /\ reply = <<195, 169>>
    /\ sock = "closed"

\* the payload of an input value of one of the three shapes
ExpectedBytes(v) ==
    IF v.type = "string" THEN into_bytes(v.val)
    ELSE IF v.type = "binary" THEN v.val
    ELSE <<>>

Supported(v) == v.type \in {"string", "binary", "nothing"}

\* C19: a string, binary or empty input never fails as unsupported, and its
\* payload is the UTF-8 bytes of the string, the binary unchanged, or no bytes:
\* these are the bytes of every write and send. Any other input, in a call that
\* got past the port conversion, ends the call with "Unsupported input type";
\* with such an input no call resolves, opens a socket, writes or sends, or
\* returns a reply.
C19_InputShapes ==
    /\ Supported(input_val) =>
          /\ cresult # "Unsupported input type"
          /\ cpc \in {"resolve", "udp_bind", "udp_set_read_timeout", "udp_send_to",
                       "udp_recv_from", "tcp_connect", "tcp_set_read_timeout",
                       "tcp_write_all"} => input_bytes = ExpectedBytes(input_val)
          /\ \A i \in OpsNamed("write_all") \cup OpsNamed("send_to") :
                io[i].bytes = ExpectedBytes(input_val)
          /\ IsPrefix(written, ExpectedBytes(input_val))
    /\ ~Supported(input_val) =>
          /\ cpc \in {"idle", "port", "timeout", "input", "done"}
          /\ (cpc = "done" /\ try_into_u16(port_val).ok) => cresult = "Unsupported input type"
          /\ cresult \in {"running", "Unsupported input type", "Invalid port number"}
          /\ io = <<>> /\ resolved = None /\ socket_addr = "none"
          /\ sock = "none" /\ written = <<>> /\ stream = "none" /\ reply = <<>>

\* a call with a valid port and an integer as input has been refused
C19_Witness ==
    /\ input_val = IntValue
    /\ port_val = 80
    /\ cpc = "done"
    /\ cresult = "Unsupported input type"

----------------------------------------------------------------------------
(* The claim about the port of `socket listen`.                            *)

\* C20: a port of `socket listen` outside 0..65535 ends the call with the
\* invalid-port error of an argument check; no listener exists and the loop was
\* not entered.
C20_ListenPortRejected ==
    (~(lport >= 0 /\ lport <= 65535) /\ lpc = "done") =>
        /\ lresult = "Err(Invalid port number)"
        /\ listener = "none"
        /\ hist.attempts = 0

----------------------------------------------------------------------------
(* The remaining claims: the shape of an iteration, the one read, the cast. *)

\* C21: every accept attempt is entered from a check that did not see the
\* signal, and a check is followed by an accept attempt or by the end of the loop,
\* so that each iteration checks once and a check lies between any two attempts;
\* an attempt never stays at the accept: after a successful accept the loop is at
\* its next check, or has ended; the sleep is entered only from an attempt that
\* found nobody waiting and accepted nothing, and it leads to the next check.
C21_CheckOncePerIteration ==
    /\ [][(lpc' = "accept" /\ lpc # "accept") => (lpc = "check" /\ ~interrupted)]_vars
    /\ [][(lpc = "check" /\ lpc' # "check") => lpc' \in {"accept", "done"}]_vars
    /\ [][(AcceptOk \/ AcceptWouldBlock \/ AcceptError) =>
            (lpc = "accept" /\ lpc' \in {"check", "sleep", "done"})]_vars
    /\ [][(lpc = "accept" /\ lpc' = "accept") => Accepted' = Accepted]_vars
    /\ [][Accepted' # Accepted => (lpc = "accept" /\ lpc' \in {"check", "done"})]_vars
    /\ [][(lpc' = "sleep" /\ lpc # "sleep") =>
            (lpc = "accept" /\ backlog = <<>> /\ Accepted' = Accepted)]_vars
    /\ [][(lpc = "sleep" /\ lpc' # "sleep") => lpc' = "check"]_vars

\* two connections were accepted one after the other, and the loop, having
\* checked again and found nobody waiting, sleeps
C21_Witness ==
    /\ ~is_single_shot
    /\ ~interrupted
    /\ Cardinality(Accepted) = 2
    /\ backlog = <<>>
    /\ lpc = "sleep"

\* the number of reads a handler has made
Reads(c) == Cardinality({i \in 1..Len(conn[c].steps) : conn[c].steps[i] = "read"})

\* C22: a handler reads at most once, and exactly once before its closure runs;
\* the closure is given what that read returned: the first n bytes the peer sent,
\* with n at most the buffer, n = 0 only if the peer sent nothing and n >= 1
\* otherwise; after the read the request never changes, whatever else the peer
\* has sent, and nothing else is ever passed to the closure.
C22_SingleRead ==
    /\ [](\A c \in Conns :
            LET h == conn[c]
            IN  /\ Reads(c) <= 1
                /\ h.hpc \in {"eval_closure", "write_all"} => Reads(c) = 1
                /\ h.calls # <<>> => Reads(c) = 1
                /\ Reads(c) = 0 => h.request = <<>>
                /\ Len(h.request) <= REQUEST_BUFFER_SIZE
                /\ h.request = Prefix(h.sent, Len(h.request))
                /\ h.sent = <<>> => h.request = <<>>
                /\ (h.hpc \in {"eval_closure", "write_all"} /\ h.sent # <<>>) =>
                      Len(h.request) >= 1
                /\ \A i \in 1..Len(h.calls) : h.calls[i] = h.request)
    /\ [][\A c \in Conns : Reads(c) = 1 => conn'[c].request = conn[c].request]_vars

\* one peer closed without sending and its closure was run on the empty payload;
\* the other sent two bytes, its handler read one, and only that one was passed
\* to the closure and echoed
C22_Witness ==
    /\ arrived >= 2
    /\ conn[1].sent = <<>>
    /\ conn[1].calls = << <<>> >>
    /\ conn[2].sent = <<1, 2>>
    /\ conn[2].calls = << <<1>> >>
    /\ conn[2].written = <<1>>
    /\ conn[2].hres = "Ok"

\* C23: when the flag is given, the timeout of the call is the Duration of
\* exactly the flag's value, with nothing added by the conversion to unsigned, and
\* it is the Duration every timed operation is given.
C23_TimeoutIsFlag ==
    (TimeoutResolved /\ timeout_val # None) =>
        /\ timeout = Secs(timeout_val[1])
        /\ TimeoutsUsed \subseteq {Secs(timeout_val[1])}

====
